---- MODULE Spec2Model ----
(***************************************************************************)
(* Membership-upgrade payment reconciliation of Fitmate                    *)
(* (src/controllers/stripe.controller.ts, kept as src/unnamed/part_004).   *)
(*                                                                         *)
(* Three request handlers share the purchase ledger and the user table:    *)
(*   createCheckoutSession  POST /api/stripe/checkout                      *)
(*   handleWebhook          POST /api/stripe/webhook                       *)
(*   verifySession          GET  /api/stripe/verify                        *)
(* Every handler is an async function: it runs atomically between two      *)
(* awaits, and other requests interleave at each await.  One action of     *)
(* this module is one such atomic segment, ending in the awaited ledger or *)
(* gateway call.                                                           *)
(***************************************************************************)
EXTENDS Integers, FiniteSets, Sequences, TLC

\* ------------------------------------------------------------------ bounds
\* Purchases that may ever be created (rows of MembershipPurchase).
MaxPurchases == 2
\* Request slots: handler invocations that may be in flight at the same time.
MaxProcs == 2
\* Irregularities of the gateway's sessions in one run: a reported amount or
\* currency other than the plan's, a session completed unpaid, metadata removed.
MaxAnomalies == 1

\* ---------------------------------------------------------------- constants
\* null / undefined / a missing id (ids of real rows and sessions start at 1).
NULL == 0

Procs == 1 .. MaxProcs

\* enum Role of the Prisma schema
Roles == {"USER", "USER_BRONZE", "USER_GOLD", "USER_PLATINUM", "TRAINER", "ADMIN"}


\* userId values a checkout request may carry: missing (0), the two users,
\* and an id that is no row of User.
UserIdInputs == {NULL, 1, 2, 3}

\* Mutant of ROLE_RANK: TRAINER ranks with USER, inside the purchasable range.
ROLE_RANKTrainerLow(r) ==
    CASE r = "USER" -> 0
      [] r = "USER_BRONZE" -> 1
      [] r = "USER_GOLD" -> 2
      [] r = "USER_PLATINUM" -> 3
      [] r = "TRAINER" -> 0
      [] r = "ADMIN" -> 100

ROLE_RANK(r) ==
    CASE r = "USER" -> 0
      [] r = "USER_BRONZE" -> 1
      [] r = "USER_GOLD" -> 2
      [] r = "USER_PLATINUM" -> 3
      [] r = "TRAINER" -> 99
      [] r = "ADMIN" -> 100

\* The three keys of STRIPE_PRICE_TO_PLAN.
PriceIds == {"price_bronze", "price_gold", "price_platinum"}

\* priceId values a checkout request may carry: missing (""), the three
\* registered prices and one that is not registered.
PriceIdInputs == PriceIds \cup {"", "price_unknown"}

NoPlan == [role |-> "", amount |-> NULL, currency |-> ""]

STRIPE_PRICE_TO_PLAN(priceId) ==
    CASE priceId = "price_bronze" ->
           [role |-> "USER_BRONZE", amount |-> 49900, currency |-> "THB"]
      [] priceId = "price_gold" ->
           [role |-> "USER_GOLD", amount |-> 129900, currency |-> "THB"]
      [] priceId = "price_platinum" ->
           [role |-> "USER_PLATINUM", amount |-> 299900, currency |-> "THB"]
      [] OTHER -> NoPlan

\* String.prototype.toUpperCase on the currency codes of the model.
ToUpperCase(c) ==
    CASE c = "thb" -> "THB"
      [] c = "usd" -> "USD"
      [] OTHER -> c

\* Mutant of the checkout guard: < for <=, a user already at the plan's role
\* passes.
CheckoutRejectsBelow(planRole, userRole) == ROLE_RANK(planRole) < ROLE_RANK(userRole)

\* The three role comparisons of the controller, one per call site.
CheckoutRejects(planRole, userRole) == ROLE_RANK(planRole) <= ROLE_RANK(userRole)

\* Mutants of the comparison in the webhook: >= for >, and the operands swapped.
WebhookShouldUpgradeOrEqual(targetRole, userRole) ==
    ROLE_RANK(targetRole) >= ROLE_RANK(userRole)

WebhookShouldUpgradeSwapped(targetRole, userRole) ==
    ROLE_RANK(userRole) > ROLE_RANK(targetRole)

WebhookShouldUpgrade(targetRole, userRole) == ROLE_RANK(targetRole) > ROLE_RANK(userRole)

\* Mutants of the comparison in verify: >= for >, and the operands swapped.
VerifyShouldUpgradeOrEqual(targetRole, userRole) ==
    ROLE_RANK(targetRole) >= ROLE_RANK(userRole)

VerifyShouldUpgradeSwapped(targetRole, userRole) ==
    ROLE_RANK(userRole) > ROLE_RANK(targetRole)

VerifyShouldUpgrade(targetRole, userRole) == ROLE_RANK(targetRole) > ROLE_RANK(userRole)

\* --------------------------------------------------------------- the state
VARIABLES
    role,         \* User.role, by user id
    purchases,    \* MembershipPurchase rows; a row's id is its index
    sessions,     \* the gateway's checkout sessions; a session's id is its index
    proc,         \* the request slots: the handler running in each and its locals
    settleWrites, \* history: per purchase, the status := PAID writes made so far
    roleWrites,   \* history: per purchase, the User.role writes made on its behalf
    anomalies,    \* history: the gateway's irregularities so far
    verified,     \* history: the sessions, as retrieved, of the verify calls answered so far
    failures,     \* history: the awaited calls that rejected, where they are counted
    clazz,        \* the Class row: capacity, requiredRole, whether startTime has passed
    enrollments,  \* ClassEnrollment rows of the class: the user ids enrolled
    enroll,       \* the enrollInClass requests in flight and their locals
    account,      \* the User row's resetToken, resetTokenExpiry (passed or not), passwordHash
    issued,       \* the reset tokens generated so far are 1 .. issued
    mailbox,      \* the reset tokens the mailer delivered
    undelivered,  \* the reset tokens whose mail was refused
    resets,       \* history: per token, the resetPassword calls answered 200
    superseded,   \* history: the reset tokens that a later saved token replaced
    authProc      \* the password-reset requests in flight and their locals

classVars == <<clazz, enrollments, enroll>>

authVars == <<account, issued, mailbox, undelivered, resets, superseded, authProc>>

otherVars == <<classVars, authVars>>

vars ==
    <<role, purchases, sessions, proc, settleWrites, roleWrites, anomalies, verified,
      failures, otherVars>>

\* The ids of the rows of the User table.
Users == DOMAIN role

NoMeta == [purchaseId |-> NULL, targetRole |-> ""]

NoSession ==
    [id |-> NULL, status |-> "", payment_status |-> "", amount_total |-> NULL,
     currency |-> "", metadata |-> NoMeta]

NoPurchase ==
    [id |-> NULL, userId |-> NULL, targetRole |-> "", status |-> "", amount |-> NULL,
     currency |-> "", gateway |-> "", externalId |-> NULL]

\* A free request slot.  The locals of the three handlers: userId and priceId
\* (checkout), event (the type of the verified event of a webhook), session, purchase (found keeps the row as the lookup returned
\* it, before line 342 reassigns purchase), userRole (the user read at line
\* 190, 287 or 331), replyRole (the user read again at line 367), didMarkPaid, didUpgrade;
\* fault tells that an awaited call rejected, http is the status of the reply.
Idle ==
    [kind |-> "idle", pc |-> "idle", userId |-> NULL, priceId |-> "",
     event |-> "", session |-> NoSession, found |-> NoPurchase, purchase |-> NoPurchase,
     userRole |-> "",
     replyRole |-> "", didMarkPaid |-> FALSE, didUpgrade |-> FALSE,
     fault |-> FALSE, http |-> NULL]

\* Sessions of the same gateway account that this application did not create:
\* one without correlation metadata, one whose metadata names no purchase.
ForeignSessions ==
    { [id |-> -1, status |-> "complete", payment_status |-> "paid",
       amount_total |-> 49900, currency |-> "thb", metadata |-> NoMeta],
      [id |-> -2, status |-> "complete", payment_status |-> "paid",
       amount_total |-> 49900, currency |-> "thb",
       metadata |-> [purchaseId |-> 99, targetRole |-> "USER_GOLD"]] }

\* What the gateway reports as amount_total and currency of a session: the
\* plan's own values, other values, or none.
RegularReport(plan) == [amount_total |-> plan.amount, currency |-> "thb"]

Reports(plan) ==
    { RegularReport(plan),
      [amount_total |-> plan.amount + 100, currency |-> "usd"],
      [amount_total |-> NULL, currency |-> ""] }

PurchaseIds == 1 .. Len(purchases)

SessionIds == 1 .. Len(sessions)

\* A free enrollInClass slot: classId and userId of the request, the
\* enrollment count read with the class (lines 210-215), the fault of an
\* awaited call, the status of the reply.
EnrollIdle ==
    [pc |-> "idle", classId |-> NULL, userId |-> NULL, count |-> NULL, fault |-> FALSE,
     http |-> NULL]

\* A free slot of the password-reset handlers: the email of the request, the
\* token it carries or generates, the new password, the fault of an awaited
\* call, the status of the reply.
AuthIdle ==
    [kind |-> "idle", pc |-> "idle", email |-> "", token |-> NULL, newPassword |-> "",
     fault |-> FALSE, http |-> NULL]

\* No class open for enrolment, no enrolment request.
NoClass ==
    /\ clazz = [capacity |-> NULL, requiredRole |-> "", started |-> TRUE]
    /\ enrollments = {}
    /\ enroll = [p \in Procs |-> EnrollIdle]

\* The account has no reset token; no password-reset request.
NoAccount ==
    /\ account = [resetToken |-> NULL, expired |-> FALSE, passwordHash |-> "pw0"]
    /\ issued = 0
    /\ mailbox = {}
    /\ undelivered = {}
    /\ resets = <<>>
    /\ superseded = {}
    /\ authProc = [p \in Procs |-> AuthIdle]

\* No purchase and no session yet, no request in flight.
Empty ==
    /\ purchases = <<>>
    /\ sessions = <<>>
    /\ proc = [p \in Procs |-> Idle]
    /\ settleWrites = <<>>
    /\ roleWrites = <<>>
    /\ anomalies = 0
    /\ verified = {}
    /\ failures = 0

\* One user, holding any role.
Init == role \in [{1} -> Roles] /\ Empty /\ NoClass /\ NoAccount

\* Two users: user 1 holds any role, user 2 has just registered (role USER).
InitSeq ==
    role \in {f \in [{1, 2} -> Roles] : f[2] = "USER"} /\ Empty /\ NoClass /\ NoAccount

\* ------------------------------------------------------------ request slots
\* A new request takes the lowest free slot (the slots are interchangeable),
\* once the replies of the finished requests have been sent.
FreeSlot(p) ==
    /\ proc[p] = Idle
    /\ \A q \in Procs : (q < p => proc[q] # Idle) /\ proc[q].pc # "done"

\* The response is sent: the handler ends with HTTP status code.
Respond(p, rec, code) == proc' = [proc EXCEPT ![p] = [rec EXCEPT !.pc = "done", !.http = code]]

Goto(p, rec, label) == proc' = [proc EXCEPT ![p] = [rec EXCEPT !.pc = label]]

\* ------------------------------------------------- createCheckoutSession
\* Checkouts that have passed validation and will still create their row.
CheckoutsBeforeCreate ==
    Cardinality({q \in Procs : proc[q].pc \in {"ck_user", "ck_create"}})

\* lines 182-187: the body's fields and the plan lookup
CkBegin(p) ==
    /\ FreeSlot(p)
    /\ Len(purchases) + CheckoutsBeforeCreate < MaxPurchases
    /\ \E userId \in UserIdInputs, priceId \in PriceIdInputs :
         LET rec == [Idle EXCEPT !.kind = "checkout", !.userId = userId, !.priceId = priceId]
         IN  IF userId = NULL \/ priceId = "" \/ STRIPE_PRICE_TO_PLAN(priceId) = NoPlan
             THEN Respond(p, [Idle EXCEPT !.kind = "checkout"], 400)
             ELSE Goto(p, rec, "ck_user")
    /\ UNCHANGED <<role, purchases, sessions, settleWrites, roleWrites, anomalies, verified, failures, otherVars>>

\* lines 190-194: prisma.user.findUnique and the downgrade guard
CkReadUser(p) ==
    /\ proc[p].pc = "ck_user"
    /\ LET me == proc[p]
           plan == STRIPE_PRICE_TO_PLAN(me.priceId)
       IN  IF me.userId \notin Users
           THEN Respond(p, me, 404)
           ELSE IF CheckoutRejects(plan.role, role[me.userId])
           THEN Respond(p, [me EXCEPT !.userRole = role[me.userId]], 409)
           ELSE Goto(p, [me EXCEPT !.userRole = role[me.userId]], "ck_create")
    /\ UNCHANGED <<role, purchases, sessions, settleWrites, roleWrites, anomalies, verified, failures, otherVars>>

\* lines 197-206: prisma.membershipPurchase.create
CkCreate(p) ==
    /\ proc[p].pc = "ck_create"
    /\ LET me == proc[p]
           plan == STRIPE_PRICE_TO_PLAN(me.priceId)
           row == [id |-> Len(purchases) + 1, userId |-> me.userId,
                   targetRole |-> plan.role, status |-> "PENDING",
                   amount |-> plan.amount, currency |-> plan.currency,
                   gateway |-> "stripe", externalId |-> NULL]
       IN  /\ purchases' = Append(purchases, row)
           /\ Goto(p, [me EXCEPT !.purchase = row], "ck_session")
    /\ settleWrites' = Append(settleWrites, 0)
    /\ roleWrites' = Append(roleWrites, 0)
    /\ UNCHANGED <<role, sessions, anomalies, verified, failures, otherVars>>

\* Mutant of SessionMetadata: the metadata names the first purchase of the
\* ledger, not the one just created.
SessionMetadataFirst(purchase, plan) == [purchaseId |-> 1, targetRole |-> plan.role]

\* lines 215-219: the correlation metadata of the session (userId, which no
\* handler reads back, is left out)
SessionMetadata(purchase, plan) == [purchaseId |-> purchase.id, targetRole |-> plan.role]

\* lines 210-220: stripe.checkout.sessions.create with the correlation metadata;
\* irregular tells whether the gateway may report other amounts than the plan's
CkSession(p, irregular) ==
    /\ proc[p].pc = "ck_session"
    /\ LET me == proc[p]
           plan == STRIPE_PRICE_TO_PLAN(me.priceId)
       IN  \E rep \in IF irregular /\ anomalies < MaxAnomalies
                     THEN Reports(plan) ELSE {RegularReport(plan)} :
             LET s == [id |-> Len(sessions) + 1, status |-> "open",
                       payment_status |-> "unpaid",
                       amount_total |-> rep.amount_total, currency |-> rep.currency,
                       metadata |-> SessionMetadata(me.purchase, plan)]
             IN  /\ sessions' = Append(sessions, s)
                 /\ Goto(p, [me EXCEPT !.session = s], "ck_link")
                 /\ anomalies' = IF rep = RegularReport(plan) THEN anomalies ELSE anomalies + 1
    /\ UNCHANGED <<role, purchases, settleWrites, roleWrites, verified, failures, otherVars>>

\* Mutant of CkLink: the update saves the whole row the handler holds since
\* its create, not the externalId alone.
CkLinkSavesRow(p) ==
    /\ proc[p].pc = "ck_link"
    /\ LET me == proc[p]
       IN  /\ purchases' = [purchases EXCEPT
                                ![me.purchase.id] = [me.purchase EXCEPT !.externalId = me.session.id]]
           /\ Respond(p, me, 200)
    /\ UNCHANGED <<role, sessions, settleWrites, roleWrites, anomalies, verified, failures, otherVars>>

\* Mutant of CkLink: the update stores the purchase's id for the session's.
CkLinkPurchaseId(p) ==
    /\ proc[p].pc = "ck_link"
    /\ LET me == proc[p]
       IN  /\ purchases' = [purchases EXCEPT ![me.purchase.id].externalId = me.purchase.id]
           /\ Respond(p, me, 200)
    /\ UNCHANGED <<role, sessions, settleWrites, roleWrites, anomalies, verified, failures, otherVars>>

\* lines 223-228: prisma.membershipPurchase.update({ externalId }) and the reply
CkLink(p) ==
    /\ proc[p].pc = "ck_link"
    /\ LET me == proc[p]
       IN  /\ purchases' = [purchases EXCEPT ![me.purchase.id].externalId = me.session.id]
           /\ Respond(p, me, 200)
    /\ UNCHANGED <<role, sessions, settleWrites, roleWrites, anomalies, verified, failures, otherVars>>

\* ------------------------------------------------------------ the gateway
\* The customer pays on the hosted page: the session completes, paid.
GatewayPay(s) ==
    /\ sessions[s].status = "open"
    /\ sessions' = [sessions EXCEPT ![s].status = "complete", ![s].payment_status = "paid"]
    /\ UNCHANGED <<role, purchases, proc, settleWrites, roleWrites, anomalies, verified, failures, otherVars>>

\* The customer completes the hosted page with a delayed payment method: the
\* session is complete while its payment_status is still "unpaid".
GatewayCompleteUnpaid(s) ==
    /\ sessions[s].status = "open"
    /\ anomalies < MaxAnomalies
    /\ sessions' = [sessions EXCEPT ![s].status = "complete"]
    /\ anomalies' = anomalies + 1
    /\ UNCHANGED <<role, purchases, proc, settleWrites, roleWrites, verified, failures, otherVars>>

\* The session's metadata is removed on the gateway's side (the handlers read
\* it as optional: session.metadata?.purchaseId).
GatewayClearMetadata(s) ==
    /\ sessions[s].metadata # NoMeta
    /\ anomalies < MaxAnomalies
    /\ sessions' = [sessions EXCEPT ![s].metadata = NoMeta]
    /\ anomalies' = anomalies + 1
    /\ UNCHANGED <<role, purchases, proc, settleWrites, roleWrites, verified, failures, otherVars>>

\* Sessions for which the gateway may deliver checkout.session.completed.
CompletedSessions ==
    {sessions[s] : s \in {i \in SessionIds : sessions[i].status = "complete"}}
        \cup ForeignSessions

\* ------------------------------------------------------ the settlement write
\* Mutant of SettledRow: the update also stores a target role, the highest of
\* the plan registry.
SettledRowTakesRole(row, session, nowRow) ==
    [nowRow EXCEPT !.status = "PAID", !.targetRole = "USER_PLATINUM",
                   !.externalId = session.id]

\* Mutant of SettledRow: the update leaves the status as it is.
SettledRowKeepsStatus(row, session, nowRow) ==
    [nowRow EXCEPT !.externalId = session.id]

\* Mutant of SettledRow: the settlement keeps the amount and the currency the
\* row holds since the checkout.
SettledRowKeepsPlan(row, session, nowRow) ==
    [nowRow EXCEPT !.status = "PAID", !.externalId = session.id]

\* data of the update, lines 278-283 and 344-350 (gateway only in verify)
SettledRow(row, session, nowRow) ==
    [nowRow EXCEPT
        !.status = "PAID",
        !.amount = IF session.amount_total # NULL THEN session.amount_total
                   ELSE IF row.amount # NULL THEN row.amount
                   ELSE nowRow.amount,
        !.currency = ToUpperCase(IF session.currency # "" THEN session.currency
                                 ELSE IF row.currency # "" THEN row.currency
                                 ELSE "THB"),
        !.externalId = session.id]

\* prisma.membershipPurchase.update({ where: { id } }): no condition on status
SettleWrite(row, session) ==
    /\ purchases' = [purchases EXCEPT ![row.id] = SettledRow(row, session, purchases[row.id])]
    /\ settleWrites' = [settleWrites EXCEPT ![row.id] = @ + 1]

\* Mutant of RoleWrite: the update's where clause names the first user.
RoleWriteFirstUser(userId, newRole, purchaseId) ==
    /\ role' = [role EXCEPT ![1] = newRole]
    /\ roleWrites' = [roleWrites EXCEPT ![purchaseId] = @ + 1]

\* prisma.user.update({ where: { id }, data: { role } })
RoleWrite(userId, newRole, purchaseId) ==
    /\ role' = [role EXCEPT ![userId] = newRole]
    /\ roleWrites' = [roleWrites EXCEPT ![purchaseId] = @ + 1]

\* ----------------------------------------------------------- handleWebhook
\* lines 237-246: constructEvent rejects the signature
WhBadSignature(p) ==
    /\ FreeSlot(p)
    /\ Respond(p, [Idle EXCEPT !.kind = "webhook"], 400)
    /\ UNCHANGED <<role, purchases, sessions, settleWrites, roleWrites, anomalies, verified, failures, otherVars>>

\* Mutant of WhOtherEvent: an event of another type is answered 400.
WhOtherEventRejected(p) ==
    /\ FreeSlot(p)
    /\ Respond(p, [Idle EXCEPT !.kind = "webhook", !.event = "payment_intent.succeeded"], 400)
    /\ UNCHANGED <<role, purchases, sessions, settleWrites, roleWrites, anomalies, verified, failures, otherVars>>

\* lines 249, 299: a verified event of another type
WhOtherEvent(p) ==
    /\ FreeSlot(p)
    /\ Respond(p, [Idle EXCEPT !.kind = "webhook", !.event = "payment_intent.succeeded"], 200)
    /\ UNCHANGED <<role, purchases, sessions, settleWrites, roleWrites, anomalies, verified, failures, otherVars>>

\* lines 249-257: checkout.session.completed and its metadata
WhReceive(p) ==
    /\ FreeSlot(p)
    /\ \E s \in CompletedSessions :
         LET rec == [Idle EXCEPT !.kind = "webhook", !.event = "checkout.session.completed",
                                 !.session = s]
         IN  IF s.metadata.purchaseId = NULL \/ s.metadata.targetRole = ""
             THEN Respond(p, rec, 200)
             ELSE Goto(p, rec, "wh_find")
    /\ UNCHANGED <<role, purchases, sessions, settleWrites, roleWrites, anomalies, verified, failures, otherVars>>

\* Mutant of WebhookGate: the gate never closes, every delivery settles again.
WebhookGateOpen(row) == row.status = "NEVER"

\* The idempotency gate of the webhook, line 262.
WebhookGate(row) == row.status = "PAID"

\* Mutant of WhFind: no return for a purchase that is not found, so reading
\* its status throws and the catch block answers 500.
WhFindNoNullGuard(p) ==
    /\ proc[p].pc = "wh_find"
    /\ LET me == proc[p]
           id == me.session.metadata.purchaseId
       IN  IF id \notin PurchaseIds
           THEN Respond(p, me, 500)
           ELSE IF WebhookGate(purchases[id])
           THEN Respond(p, [me EXCEPT !.purchase = purchases[id], !.found = purchases[id]], 200)
           ELSE Goto(p, [me EXCEPT !.purchase = purchases[id], !.found = purchases[id]], "wh_settle")
    /\ UNCHANGED <<role, purchases, sessions, settleWrites, roleWrites, anomalies, verified, failures, otherVars>>

\* lines 260-273: findUnique by metadata.purchaseId, the not-found and PAID returns
WhFind(p) ==
    /\ proc[p].pc = "wh_find"
    /\ LET me == proc[p]
           id == me.session.metadata.purchaseId
       IN  IF id \notin PurchaseIds
           THEN Respond(p, me, 200)
           ELSE IF WebhookGate(purchases[id])
           THEN Respond(p, [me EXCEPT !.purchase = purchases[id], !.found = purchases[id]], 200)
           ELSE Goto(p, [me EXCEPT !.purchase = purchases[id], !.found = purchases[id]], "wh_settle")
    /\ UNCHANGED <<role, purchases, sessions, settleWrites, roleWrites, anomalies, verified, failures, otherVars>>

\* lines 276-284: update the purchase to PAID
WhSettle(p) ==
    /\ proc[p].pc = "wh_settle"
    /\ LET me == proc[p]
       IN  /\ SettleWrite(me.purchase, me.session)
           /\ Goto(p, [me EXCEPT !.didMarkPaid = TRUE], "wh_user")
    /\ UNCHANGED <<role, sessions, roleWrites, anomalies, verified, failures, otherVars>>

\* lines 287-296: findUnique of the user and the comparison
WhReadUser(p) ==
    /\ proc[p].pc = "wh_user"
    /\ LET me == proc[p]
           rec == [me EXCEPT !.userRole = role[me.purchase.userId]]
       IN  IF WebhookShouldUpgrade(me.session.metadata.targetRole, rec.userRole)
           THEN Goto(p, rec, "wh_upgrade")
           ELSE Respond(p, rec, 200)
    /\ UNCHANGED <<role, purchases, sessions, settleWrites, roleWrites, anomalies, verified, failures, otherVars>>

\* lines 289-293, 299: update the user's role to the metadata's targetRole
WhUpgrade(p) ==
    /\ proc[p].pc = "wh_upgrade"
    /\ LET me == proc[p]
       IN  /\ RoleWrite(me.purchase.userId, me.session.metadata.targetRole, me.purchase.id)
           /\ Respond(p, [me EXCEPT !.didUpgrade = TRUE], 200)
    /\ UNCHANGED <<purchases, sessions, settleWrites, anomalies, verified, failures, otherVars>>

\* ----------------------------------------------------------- verifySession
\* session_id values a verify request may carry: missing (0), a session of
\* this application, a foreign session, and an id the gateway does not know.
SessionIdInputs == SessionIds \cup {s.id : s \in ForeignSessions} \cup {NULL, 77}

\* lines 308-309: the query parameter
VfBegin(p) ==
    /\ FreeSlot(p)
    /\ \E sid \in SessionIdInputs :
         LET rec == [Idle EXCEPT !.kind = "verify", !.session = [NoSession EXCEPT !.id = sid]]
         IN  IF sid = NULL THEN Respond(p, rec, 400) ELSE Goto(p, rec, "vf_retrieve")
    /\ UNCHANGED <<role, purchases, sessions, settleWrites, roleWrites, anomalies, verified, failures, otherVars>>

\* lines 315-317
IsPaid(session) == session.payment_status = "paid" \/ session.status = "complete"

\* line 312: stripe.checkout.sessions.retrieve; it throws for an unknown id
VfRetrieve(p) ==
    /\ proc[p].pc = "vf_retrieve"
    /\ LET me == proc[p]
           sid == me.session.id
           known == {s \in ForeignSessions : s.id = sid}
                        \cup {sessions[i] : i \in {j \in SessionIds : j = sid}}
       IN  IF known = {}
           THEN Respond(p, [me EXCEPT !.fault = TRUE], 500)
           ELSE \E s \in known : Goto(p, [me EXCEPT !.session = s], "vf_findExt")
    /\ UNCHANGED <<role, purchases, sessions, settleWrites, roleWrites, anomalies, verified, failures, otherVars>>

\* The history of the answered verify calls, with one more session.
Answered(session) == verified \cup {session}

\* history tells, in the three steps that reply 200, whether the history of the
\* answered verify calls is kept.
\* lines 320-323: findFirst({ where: { externalId: session.id } }); with no
\* purchase the handler replies at once (lines 324, 330-393 await nothing then)
VfFindExt(p, history) ==
    /\ proc[p].pc = "vf_findExt"
    /\ LET me == proc[p]
           found == {i \in PurchaseIds : purchases[i].externalId = me.session.id}
       IN  IF found # {}
           THEN \E i \in found : Goto(p, [me EXCEPT !.purchase = purchases[i], !.found = purchases[i]], "vf_user")
           ELSE IF me.session.metadata.purchaseId # NULL
           THEN Goto(p, me, "vf_findId")
           ELSE Respond(p, me, 200)
    /\ verified' = IF history /\ proc'[p].pc = "done" THEN Answered(proc[p].session) ELSE verified
    /\ UNCHANGED <<role, purchases, sessions, settleWrites, roleWrites, anomalies, failures, otherVars>>

\* lines 324-328: findUnique({ where: { id: session.metadata.purchaseId } })
VfFindId(p, history) ==
    /\ proc[p].pc = "vf_findId"
    /\ LET me == proc[p]
           id == me.session.metadata.purchaseId
       IN  IF id \in PurchaseIds
           THEN Goto(p, [me EXCEPT !.purchase = purchases[id], !.found = purchases[id]], "vf_user")
           ELSE Respond(p, me, 200)
    /\ verified' = IF history /\ proc'[p].pc = "done" THEN Answered(proc[p].session) ELSE verified
    /\ UNCHANGED <<role, purchases, sessions, settleWrites, roleWrites, anomalies, failures, otherVars>>

\* Mutant of VerifyGate: the gate never closes, every paid call settles again.
VerifyGateOpen(row) == row.status = "NEVER"

\* The idempotency gate of verify, line 341.
VerifyGate(row) == row.status = "PAID"

\* Mutant of VfAfterSettle: the role comparison sits inside the branch that
\* marks the purchase paid, as the webhook's early return has it.
VfAfterSettleOnlyNew(p, rec) ==
    IF rec.didMarkPaid /\ VerifyShouldUpgrade(rec.purchase.targetRole, rec.userRole)
    THEN Goto(p, rec, "vf_upgrade")
    ELSE Goto(p, rec, "vf_refetch")

\* Mutant of VfAfterSettle: the role is written without the comparison.
VfAfterSettleAlways(p, rec) == Goto(p, rec, "vf_upgrade")

\* lines 355-364 as reached from line 339 or 353: upgrade or go on to the re-read
VfAfterSettle(p, rec) ==
    IF VerifyShouldUpgrade(rec.purchase.targetRole, rec.userRole)
    THEN Goto(p, rec, "vf_upgrade")
    ELSE Goto(p, rec, "vf_refetch")

\* lines 330-341: findUnique of the user, then the branch on isPaid and status
VfReadUser(p) ==
    /\ proc[p].pc = "vf_user"
    /\ LET me == proc[p]
           rec == [me EXCEPT !.userRole = role[me.purchase.userId]]
       IN  IF ~IsPaid(me.session)
           THEN Goto(p, rec, "vf_refetch")
           ELSE IF ~VerifyGate(me.purchase)
           THEN Goto(p, rec, "vf_settle")
           ELSE VfAfterSettle(p, rec)
    /\ UNCHANGED <<role, purchases, sessions, settleWrites, roleWrites, anomalies, verified, failures, otherVars>>

\* lines 342-353: update the purchase to PAID and keep the returned row
VfSettle(p) ==
    /\ proc[p].pc = "vf_settle"
    /\ LET me == proc[p]
       IN  /\ SettleWrite(me.purchase, me.session)
           /\ VfAfterSettle(p, [me EXCEPT !.purchase = purchases'[me.purchase.id],
                                          !.didMarkPaid = TRUE])
    /\ UNCHANGED <<role, sessions, roleWrites, anomalies, verified, failures, otherVars>>

\* lines 357-363: update the user's role to purchase.targetRole
VfUpgrade(p) ==
    /\ proc[p].pc = "vf_upgrade"
    /\ LET me == proc[p]
       IN  /\ RoleWrite(me.purchase.userId, me.purchase.targetRole, me.purchase.id)
           /\ Goto(p, [me EXCEPT !.didUpgrade = TRUE], "vf_refetch")
    /\ UNCHANGED <<purchases, sessions, settleWrites, anomalies, verified, failures, otherVars>>

\* lines 367-393: read the user again and reply
VfRefetch(p, history) ==
    /\ proc[p].pc = "vf_refetch"
    /\ LET me == proc[p]
       IN  Respond(p, [me EXCEPT !.replyRole = role[me.purchase.userId]], 200)
    /\ verified' = IF history THEN Answered(proc[p].session) ELSE verified
    /\ UNCHANGED <<role, purchases, sessions, settleWrites, roleWrites, anomalies, failures, otherVars>>

\* ------------------------------------------------------- failures and replies
\* The awaited ledger or gateway call rejects (or times out): the handler's
\* catch block answers 500 (lines 229-232, 300-303, 394-397).
Fail(p) ==
    /\ proc[p].pc \notin {"idle", "done"}
    /\ Respond(p, [proc[p] EXCEPT !.fault = TRUE], 500)
    /\ UNCHANGED <<role, purchases, sessions, settleWrites, roleWrites, anomalies, verified, failures, otherVars>>

\* The reply has been sent; the slot is free for the next request.
Return(p) ==
    /\ proc[p].pc = "done"
    /\ proc' = [proc EXCEPT ![p] = Idle]
    /\ UNCHANGED <<role, purchases, sessions, settleWrites, roleWrites, anomalies, verified, failures, otherVars>>

\* ------------------------------------------------------------ specification
Checkout(p, irregular) ==
    CkBegin(p) \/ CkReadUser(p) \/ CkCreate(p) \/ CkSession(p, irregular) \/ CkLink(p)

Webhook(p) ==
    \/ WhBadSignature(p) \/ WhOtherEvent(p) \/ WhReceive(p)
    \/ WhFind(p) \/ WhSettle(p) \/ WhReadUser(p) \/ WhUpgrade(p)

Verify(p, history) ==
    \/ VfBegin(p) \/ VfRetrieve(p) \/ VfFindExt(p, history) \/ VfFindId(p, history)
    \/ VfReadUser(p) \/ VfSettle(p) \/ VfUpgrade(p) \/ VfRefetch(p, history)

\* Concurrent requests: every interleaving of the handlers' segments, with
\* sessions that are paid as the plan says and ledger calls that succeed.
Next ==
    \/ \E p \in Procs : Checkout(p, FALSE) \/ Webhook(p) \/ Verify(p, FALSE) \/ Return(p)
    \/ \E s \in SessionIds : GatewayPay(s)

Spec == Init /\ [][Next]_vars

\* One request at a time (slot 1 only), with every kind of session the
\* gateway may hold and with ledger and gateway calls that may fail.
NextSeq ==
    \/ Checkout(1, TRUE) \/ Webhook(1) \/ Verify(1, FALSE) \/ Fail(1) \/ Return(1)
    \/ \E s \in SessionIds : GatewayPay(s) \/ GatewayCompleteUnpaid(s) \/ GatewayClearMetadata(s)

SeqSpec == InitSeq /\ [][NextSeq]_vars

\* One request at a time, one user, sessions that are paid as the plan says,
\* calls that may fail, and the history of the answered verify calls.
NextVerified ==
    \/ Checkout(1, FALSE) \/ Webhook(1) \/ Verify(1, TRUE) \/ Fail(1) \/ Return(1)
    \/ \E s \in SessionIds : GatewayPay(s)

VerifiedSpec == Init /\ [][NextVerified]_vars

\* ------------------------------------------------------------------ claims
\* Requests that have replied.
Done(p) == proc[p].pc = "done"

\* A reconcile invocation: a webhook delivery or a verify call.
Reconciles(p) == proc[p].kind \in {"webhook", "verify"}

\* C1: at-most-once settlement.  Whatever number of webhook deliveries and
\* verify calls run concurrently for one paid session, a purchase receives the
\* status := PAID write from exactly one of them; the others write nothing to it.
C1_AtMostOnceSettlement == \A i \in PurchaseIds : settleWrites[i] <= 1

\* C2: never downgrade.  Under every interleaving of checkout, webhook and
\* verify invocations no step lowers the rank of a user's role.
C2_NeverDowngrade ==
    [][\A u \in Users : ROLE_RANK(role'[u]) >= ROLE_RANK(role[u])]_vars

\* A handler that replied without any of its awaited calls rejecting.
Completed(p) == Done(p) /\ ~proc[p].fault

\* The request observed a session of the gateway: the verified event's
\* session (webhook) or the retrieved session (verify).
Observed(p) == Reconciles(p) /\ proc[p].session.status # ""

\* The purchases an observed session resolves to: by externalId, or else by
\* the purchaseId of its metadata.
ByExternalId(session) == {i \in PurchaseIds : purchases[i].externalId = session.id}

Resolvable(session) ==
    ByExternalId(session) # {} \/ session.metadata.purchaseId \in PurchaseIds

\* C3: idempotent role upgrade.  Over any sequence of webhook deliveries and
\* verify calls, the role of the user is written at most once on behalf of
\* one purchase: once the purchase is settled and the user upgraded, no later
\* call for it writes the role again.
C3_RoleWrittenOnce == \A i \in PurchaseIds : roleWrites[i] <= 1

\* C3 witness: a verify call for a purchase that was settled and whose user
\* was upgraded before has replied, and wrote nothing.
C3_Witness ==
    \E i \in PurchaseIds :
        /\ roleWrites[i] = 1
        /\ Completed(1) /\ proc[1].kind = "verify" /\ IsPaid(proc[1].session)
        /\ proc[1].found.id = i /\ proc[1].found.status = "PAID"
        /\ ~proc[1].didMarkPaid /\ ~proc[1].didUpgrade

\* The webhook delivery w and the verify call v of Scenario B: both have
\* replied, for the same paid session of this application.
ScenarioB(w, v) ==
    /\ Done(w) /\ proc[w].kind = "webhook"
    /\ Done(v) /\ proc[v].kind = "verify"
    /\ proc[w].session.id \in SessionIds
    /\ proc[v].session.id = proc[w].session.id
    /\ IsPaid(proc[v].session)

\* The only purchase of its user, for USER_GOLD.
OnlyGoldPurchase(i) ==
    /\ purchases[i].targetRole = "USER_GOLD"
    /\ \A j \in PurchaseIds : purchases[j].userId = purchases[i].userId => j = i

\* C4: Scenario B.  When a webhook delivery and a verify call for the paid
\* session of a user's USER_GOLD purchase have both run, however their steps
\* interleaved, the purchase is PAID, the user is USER_GOLD and both calls
\* replied without an error.
C4_ScenarioB ==
    \A w, v \in Procs :
        LET i == sessions[proc[w].session.id].metadata.purchaseId
        IN  (ScenarioB(w, v) /\ OnlyGoldPurchase(i)) =>
                /\ purchases[i].status = "PAID"
                /\ role[purchases[i].userId] = "USER_GOLD"
                /\ proc[w].http = 200 /\ proc[v].http = 200

\* C4 witness: the two calls raced, both wrote the settlement, and the user
\* was upgraded from USER.
C4_Witness ==
    \E w, v \in Procs :
        /\ ScenarioB(w, v)
        /\ OnlyGoldPurchase(sessions[proc[w].session.id].metadata.purchaseId)
        /\ proc[w].didMarkPaid /\ proc[v].didMarkPaid
        /\ proc[v].didUpgrade /\ proc[v].userRole = "USER"

\* C5: universal upgrade recheck.  A webhook delivery or verify call that
\* resolves a purchase which is already PAID, for a completed payment, still
\* upgrades the user when the target role outranks the user's role: when it
\* has replied, the user's rank is at least the target's.
C5_UniversalRecheck ==
    \A p \in Procs :
        (/\ Completed(p) /\ Observed(p) /\ IsPaid(proc[p].session)
         /\ proc[p].found.status = "PAID") =>
            ROLE_RANK(role[proc[p].found.userId]) >= ROLE_RANK(proc[p].found.targetRole)

\* C6: Scenario D.  A verify call that finds its purchase PAID while the
\* user's rank is below the target's sets the user's role to the target role
\* and writes nothing to the purchase.
C6_RepairThroughVerify ==
    \A p \in Procs :
        (/\ Completed(p) /\ proc[p].kind = "verify" /\ IsPaid(proc[p].session)
         /\ proc[p].found.status = "PAID"
         /\ ROLE_RANK(proc[p].userRole) < ROLE_RANK(proc[p].found.targetRole)) =>
            /\ proc[p].didUpgrade
            /\ role[proc[p].found.userId] = proc[p].found.targetRole
            /\ proc[p].replyRole = proc[p].found.targetRole
            /\ ~proc[p].didMarkPaid
            /\ purchases[proc[p].found.id] = proc[p].found

\* C6 witness: such a verify call has replied: the purchase had been settled
\* by a call that failed before its upgrade, and the user was still USER.
C6_Witness ==
    \E p \in Procs :
        /\ Completed(p) /\ proc[p].kind = "verify"
        /\ proc[p].found.status = "PAID"
        /\ proc[p].userRole = "USER" /\ proc[p].didUpgrade
        /\ proc[p].found.targetRole = "USER_PLATINUM"

\* C7: forward-only status.  The status of a purchase changes only from
\* PENDING; a purchase that has left PENDING keeps its status in every step.
C7_ForwardOnlyStatus ==
    [][\A i \in PurchaseIds :
          purchases'[i].status # purchases[i].status => purchases[i].status = "PENDING"]_vars

\* C7 witness: a purchase is PAID and has been written by a second settlement,
\* and a third call that found it PAID has replied.
C7_Witness ==
    \E i \in PurchaseIds, p \in Procs :
        /\ purchases[i].status = "PAID" /\ settleWrites[i] = 2
        /\ Completed(p) /\ Reconciles(p) /\ proc[p].found.id = i /\ proc[p].found.status = "PAID"

\* C8: payment truth.  A webhook delivery or verify call whose session's
\* payment status is not "paid" writes neither a purchase nor a user.
C8_PaymentTruth ==
    \A p \in Procs :
        (Reconciles(p) /\ (proc[p].didMarkPaid \/ proc[p].didUpgrade)) =>
            proc[p].session.payment_status = "paid"

\* C9: unresolvable-event safety.  A webhook delivery or verify call whose
\* observed session matches no purchase, by externalId or by the purchaseId
\* of its metadata, writes nothing and replies 200.
C9_UnresolvableEvent ==
    \A p \in Procs :
        (Completed(p) /\ Observed(p) /\ ~Resolvable(proc[p].session)) =>
            /\ proc[p].http = 200
            /\ proc[p].found = NoPurchase
            /\ ~proc[p].didMarkPaid /\ ~proc[p].didUpgrade

\* C9 witness: a webhook delivery whose metadata names a purchase that does
\* not exist has replied, while a PENDING purchase exists.
C9_Witness ==
    \E p \in Procs :
        /\ Completed(p) /\ proc[p].kind = "webhook"
        /\ proc[p].session.metadata.purchaseId # NULL
        /\ ~Resolvable(proc[p].session)
        /\ \E i \in PurchaseIds : purchases[i].status = "PENDING"

\* C10: purchase resolution order.  A completed-payment event whose session
\* id is the externalId of a purchase settles that purchase, at either entry
\* point, whatever its metadata: once the call has replied, the purchase is PAID.
C10_ResolvedByExternalId ==
    \A p \in Procs :
        (Completed(p) /\ Observed(p) /\ IsPaid(proc[p].session)) =>
            \A i \in ByExternalId(proc[p].session) : purchases[i].status = "PAID"

\* A checkout request that is past validation: it creates, or has created, a row.
PastValidation(p) ==
    /\ proc[p].kind = "checkout"
    /\ \/ proc[p].pc \in {"ck_create", "ck_session", "ck_link"}
       \/ Done(p) /\ proc[p].http = 200

\* The step in which checkout request p replies with a rejection.
Rejected(p) ==
    /\ proc[p].pc # "done"
    /\ proc'[p].pc = "done" /\ proc'[p].kind = "checkout"
    /\ proc'[p].http \in {400, 404, 409}

\* C11: checkout validation creates nothing.  A checkout request gets past
\* validation only with the id of an existing user, a registered priceId and a
\* user who ranks below the plan's role; every other request is rejected, and
\* a rejected request has created no purchase and leaves the purchases and
\* every user's role as they were.
C11_ValidationCreatesNothing ==
    /\ [](\A p \in Procs :
            PastValidation(p) =>
                /\ proc[p].userId \in Users
                /\ proc[p].priceId \in PriceIds
                /\ ROLE_RANK(proc[p].userRole)
                       < ROLE_RANK(STRIPE_PRICE_TO_PLAN(proc[p].priceId).role))
    /\ [][\A p \in Procs :
            Rejected(p) =>
                /\ proc'[p].purchase = NoPurchase
                /\ purchases' = purchases /\ role' = role /\ sessions' = sessions]_vars

\* C11 witness: a USER_PLATINUM user's request for the USER_GOLD plan was
\* answered 409, while the purchase that made the user USER_PLATINUM exists.
C11_Witness ==
    \E p \in Procs :
        /\ Done(p) /\ proc[p].kind = "checkout" /\ proc[p].http = 409
        /\ proc[p].userRole = "USER_PLATINUM" /\ proc[p].priceId = "price_gold"
        /\ proc[p].purchase = NoPurchase
        /\ Len(purchases) = 1 /\ purchases[1].status = "PAID"

\* A checkout request holds purchase i between its create and its reply.
HeldByCheckout(i) ==
    \E p \in Procs :
        /\ proc[p].kind = "checkout" /\ proc[p].pc \in {"ck_session", "ck_link"}
        /\ proc[p].purchase.id = i

\* A session carries purchase i in its metadata: a session the gateway holds,
\* or the copy of one that a request in flight has received.
ReferredTo(i) ==
    \/ \E s \in SessionIds : sessions[s].metadata.purchaseId = i
    \/ \E p \in Procs : proc[p].pc # "done" /\ proc[p].session.metadata.purchaseId = i

\* The purchase of a checkout that ended without a session: no externalId,
\* no session for it, and no checkout that could still make one.
Orphan(i) == purchases[i].externalId = NULL /\ ~HeldByCheckout(i) /\ ~ReferredTo(i)

\* The three writes of a checkout, in their order.
CheckoutOrder ==
    /\ Len(purchases') > Len(purchases) =>
           LET row == purchases'[Len(purchases')]
           IN  /\ row.status = "PENDING" /\ row.externalId = NULL
               /\ \E k \in PriceIds :
                      /\ row.targetRole = STRIPE_PRICE_TO_PLAN(k).role
                      /\ row.amount = STRIPE_PRICE_TO_PLAN(k).amount
                      /\ row.currency = STRIPE_PRICE_TO_PLAN(k).currency
               /\ sessions' = sessions /\ ~ReferredTo(row.id)
    /\ Len(sessions') > Len(sessions) =>
           LET i == sessions'[Len(sessions')].metadata.purchaseId
           IN  /\ i \in PurchaseIds /\ HeldByCheckout(i)
               /\ purchases[i].status = "PENDING" /\ purchases[i].externalId = NULL
               /\ purchases' = purchases
    /\ \A i \in PurchaseIds :
           (purchases[i].externalId = NULL /\ purchases'[i].externalId # NULL) =>
               /\ purchases'[i].externalId \in SessionIds
               /\ sessions' = sessions

\* C12: checkout step order and orphan.  A checkout creates the purchase in
\* PENDING with the plan's amount and currency and no externalId, then requests
\* the session, then sets externalId to an existing session's id.  A purchase
\* left without a session is PENDING, and stays as it is, without a session
\* referring to it, in every later step.
C12_StepOrderAndOrphan ==
    /\ [](\A i \in PurchaseIds : Orphan(i) => purchases[i].status = "PENDING")
    /\ [][/\ CheckoutOrder
          /\ \A i \in PurchaseIds :
                 Orphan(i) => (purchases'[i] = purchases[i] /\ ~ReferredTo(i)'
                                   /\ ~HeldByCheckout(i)')]_vars

\* C12 witness: the session request of the first checkout failed; a later
\* checkout was paid and a webhook or verify call has settled it, the first
\* purchase still being an orphan.
C12_Witness ==
    /\ Len(purchases) = 2 /\ anomalies = 0
    /\ Orphan(1) /\ Len(sessions) = 1
    /\ purchases[2].status = "PAID"
    /\ Completed(1) /\ Reconciles(1) /\ proc[1].didMarkPaid

\* C13: webhook acknowledgment.  (a) A payload whose signature is rejected is
\* answered 400 in a step that changes nothing; (b) every verified event whose
\* handling met no failing call is answered 200, whatever its type, metadata
\* or purchase; (c) 500 is answered only when an awaited call failed, and then
\* always.
C13_WebhookAcknowledgment ==
    /\ [](\A p \in Procs :
            (Done(p) /\ proc[p].kind = "webhook") =>
                /\ proc[p].event = "" =>
                       (proc[p].http = 400 /\ ~proc[p].didMarkPaid /\ ~proc[p].didUpgrade)
                /\ (proc[p].event # "" /\ ~proc[p].fault) => proc[p].http = 200
                /\ proc[p].http = 500 <=> proc[p].fault)
    /\ [][\A p \in Procs :
            (proc'[p].kind = "webhook" /\ proc'[p].event = "" /\ proc[p] # proc'[p]
                 /\ proc'[p].pc = "done") =>
                /\ proc[p] = Idle
                /\ UNCHANGED <<role, purchases, sessions, settleWrites, roleWrites>>]_vars

\* C13 witness: a redelivered event whose purchase is PAID was acknowledged,
\* after the delivery that settled the purchase had failed with 500.
C13_Witness ==
    \E p \in Procs :
        /\ Done(p) /\ proc[p].kind = "webhook" /\ proc[p].http = 200
        /\ proc[p].found.status = "PAID"
        /\ ROLE_RANK(role[proc[p].found.userId]) < ROLE_RANK(proc[p].found.targetRole)

\* A verify call in flight whose session, as retrieved, is the session of a
\* verify call answered before.
VerifiedBefore(p) ==
    /\ proc[p].kind = "verify" /\ proc[p].pc \notin {"idle", "done", "vf_retrieve"}
    /\ proc[p].session \in verified

\* C14: verify idempotence.  Once a verify call for a session has been
\* answered, the later verify calls for that session write nothing: no step of
\* such a call changes or rewrites a purchase or a user's role, so the state
\* stays the one the first call left.
C14_VerifyIdempotent ==
    [][\A p \in Procs :
          VerifiedBefore(p) => UNCHANGED <<purchases, role, settleWrites, roleWrites>>]_vars

\* C14 witness: a second verify call for a paid session, whose first call
\* settled the purchase and upgraded the user, has passed its gates and is
\* about to reply.
C14_Witness ==
    \E p \in Procs :
        /\ VerifiedBefore(p) /\ proc[p].pc = "vf_refetch"
        /\ proc[p].session.payment_status = "paid"
        /\ proc[p].found.status = "PAID" /\ settleWrites[proc[p].found.id] = 1
        /\ roleWrites[proc[p].found.id] = 1
        /\ \A q \in Procs : proc[q].kind # "webhook"

\* handleWebhook, lines 249-297, run without interruption and without a
\* failing call on the ledger P and the roles r, for the event's session s.
WebhookOutcome(P, r, s) ==
    LET id == s.metadata.purchaseId
        targetRole == s.metadata.targetRole
    IN  IF id = NULL \/ targetRole = "" \/ id \notin DOMAIN P
        THEN [purchases |-> P, role |-> r]
        ELSE IF WebhookGate(P[id])
        THEN [purchases |-> P, role |-> r]
        ELSE [purchases |-> [P EXCEPT ![id] = SettledRow(P[id], s, P[id])],
              role |-> IF WebhookShouldUpgrade(targetRole, r[P[id].userId])
                       THEN [r EXCEPT ![P[id].userId] = targetRole]
                       ELSE r]

\* verifySession, lines 314-364, run in the same way for the retrieved session s.
VerifyOutcome(P, r, s) ==
    LET byExt == {i \in DOMAIN P : P[i].externalId = s.id}
        id == IF byExt # {} THEN CHOOSE i \in byExt : TRUE ELSE s.metadata.purchaseId
    IN  IF id \notin DOMAIN P \/ ~IsPaid(s)
        THEN [purchases |-> P, role |-> r]
        ELSE LET row == IF VerifyGate(P[id]) THEN P[id] ELSE SettledRow(P[id], s, P[id])
             IN  [purchases |-> [P EXCEPT ![id] = row],
                  role |-> IF VerifyShouldUpgrade(row.targetRole, r[row.userId])
                           THEN [r EXCEPT ![row.userId] = row.targetRole]
                           ELSE r]

\* The ledger and the roles as they were when request p resolved its purchase.
PurchasesBefore(p) ==
    IF proc[p].didMarkPaid
    THEN [purchases EXCEPT ![proc[p].found.id] = proc[p].found]
    ELSE purchases

RoleBefore(p) ==
    IF proc[p].didUpgrade
    THEN [role EXCEPT ![proc[p].found.userId] = proc[p].userRole]
    ELSE role

\* The two outcome operators are what the handlers' steps do: a delivery or a
\* call that has replied left the state its operator gives.
OutcomesAsHandlers ==
    \A p \in Procs :
        (Completed(p) /\ Observed(p)) =>
            [purchases |-> purchases, role |-> role] =
                IF proc[p].kind = "webhook"
                THEN WebhookOutcome(PurchasesBefore(p), RoleBefore(p), proc[p].session)
                ELSE VerifyOutcome(PurchasesBefore(p), RoleBefore(p), proc[p].session)

\* C15: entry-point equivalence.  From every state in which no request is in
\* flight, and for every completed session both entry points may observe with
\* its correlation metadata in place, a webhook delivery and a verify call
\* leave the same purchases and the same roles.
C15_EntryPointEquivalence ==
    (\A p \in Procs : proc[p] = Idle) =>
        \A s \in CompletedSessions :
            s.metadata # NoMeta =>
                WebhookOutcome(purchases, role, s) = VerifyOutcome(purchases, role, s)

\* The three call sites agree on the pair, and compute rank(target) > rank(current).
AgreeOn(current, target) ==
    /\ ~CheckoutRejects(target, current) <=> WebhookShouldUpgrade(target, current)
    /\ WebhookShouldUpgrade(target, current) <=> VerifyShouldUpgrade(target, current)
    /\ VerifyShouldUpgrade(target, current) <=> ROLE_RANK(target) > ROLE_RANK(current)

AgreeOnAllRoles == \A current \in Roles, target \in Roles : AgreeOn(current, target)

\* C16: comparator agreement.  For every pair of a current role and a target
\* role over the six roles, the checkout guard admits the pair exactly when
\* the webhook's and verify's comparisons upgrade, and all three are
\* rank(target) > rank(current); so it is for the role of every user paired
\* with the target role of every purchase of the ledger.
C16_ComparatorAgreement ==
    /\ AgreeOnAllRoles
    /\ \A u \in Users, i \in PurchaseIds : AgreeOn(role[u], purchases[i].targetRole)

\* C16 witness: the three call sites have run: a checkout admitted a purchase,
\* a webhook delivery upgraded its user, and a verify call for the same
\* purchase, reading the upgraded user, did not upgrade again.
C16_Witness ==
    \E w, v \in Procs :
        /\ Done(w) /\ proc[w].kind = "webhook" /\ proc[w].didUpgrade
        /\ Done(v) /\ proc[v].kind = "verify" /\ proc[v].http = 200
        /\ proc[v].found.id = proc[w].found.id
        /\ proc[v].userRole = proc[w].found.targetRole /\ ~proc[v].didUpgrade

\* The amount and the currency a settlement records for the found row and the
\* observed session: the gateway's report, or the stored value when the
\* gateway reports none; the currency code in upper case.
RecordedAmount(row, session) ==
    IF session.amount_total # NULL THEN session.amount_total ELSE row.amount

RecordedCurrency(row, session) ==
    ToUpperCase(IF session.currency # "" THEN session.currency ELSE row.currency)

\* C17: advisory cross-check.  A webhook delivery or verify call that resolves
\* a PENDING purchase for a completed payment settles it and upgrades the
\* user, whatever amount and currency the gateway reports: when it has replied
\* the purchase is PAID with the reported amount, currency and session id (the
\* stored amount or currency where none is reported) and the user ranks at
\* least at the target role.
C17_AdvisoryCrossCheck ==
    \A p \in Procs :
        (/\ Completed(p) /\ Observed(p) /\ IsPaid(proc[p].session)
         /\ proc[p].found.status = "PENDING") =>
            LET row == purchases[proc[p].found.id]
            IN  /\ proc[p].didMarkPaid
                /\ row.status = "PAID"
                /\ row.amount = RecordedAmount(proc[p].found, proc[p].session)
                /\ row.currency = RecordedCurrency(proc[p].found, proc[p].session)
                /\ row.externalId = proc[p].session.id
                /\ ROLE_RANK(role[row.userId]) >= ROLE_RANK(row.targetRole)
                /\ ROLE_RANK(proc[p].userRole) < ROLE_RANK(row.targetRole) =>
                       (proc[p].didUpgrade /\ role[row.userId] = row.targetRole)

\* C17 witness: Scenario E: the gateway reported another amount and currency
\* than the plan's; the call has settled the purchase with them and upgraded
\* the user.
C17_Witness ==
    \E p \in Procs :
        /\ Completed(p) /\ Reconciles(p) /\ proc[p].found.status = "PENDING"
        /\ proc[p].session.amount_total # proc[p].found.amount
        /\ proc[p].session.amount_total # NULL
        /\ purchases[proc[p].found.id].amount = proc[p].session.amount_total
        /\ purchases[proc[p].found.id].currency = "USD"
        /\ proc[p].didMarkPaid /\ proc[p].didUpgrade

\* C18: externalId uniqueness.  In every reachable state no two purchases
\* hold the same non-null externalId, also after settlements have written
\* externalId again.
C18_ExternalIdUnique ==
    \A i, j \in PurchaseIds :
        (purchases[i].externalId # NULL /\ purchases[i].externalId = purchases[j].externalId)
            => i = j

\* C18 witness: two purchases are linked to their sessions, which were made
\* in the other order than the purchases, and a settlement has written the
\* externalId of one of them again.
C18_Witness ==
    /\ Len(purchases) = 2
    /\ purchases[1].externalId = 2 /\ purchases[2].externalId = 1
    /\ \E i \in PurchaseIds : purchases[i].status = "PAID" /\ settleWrites[i] >= 1

\* C19: Scenario A.  A webhook delivery or verify call carrying the paid event
\* of a session made by a checkout, for a purchase not yet PAID, finds the
\* purchase PENDING, newly marks it PAID and, the user ranking below the plan's
\* role, newly upgrades the user to exactly that role.
C19_ScenarioA ==
    \A p \in Procs :
        LET i == proc[p].session.metadata.purchaseId
        IN  (/\ Completed(p) /\ Observed(p)
             /\ proc[p].session.payment_status = "paid"
             /\ i \in PurchaseIds /\ proc[p].found.status # "PAID") =>
                /\ proc[p].found.id = i /\ proc[p].found.status = "PENDING"
                /\ proc[p].didMarkPaid /\ purchases[i].status = "PAID"
                /\ ROLE_RANK(proc[p].userRole) < ROLE_RANK(purchases[i].targetRole) =>
                       /\ proc[p].didUpgrade
                       /\ role[purchases[i].userId] = purchases[i].targetRole
                       /\ proc[p].kind = "verify" =>
                              proc[p].replyRole = purchases[i].targetRole

\* C19 witness: Scenario A as the specification tells it: a USER checked out
\* the USER_GOLD plan, the gateway reported the plan's amount, and the call
\* marked the purchase paid and upgraded the user.
C19_Witness ==
    \E p \in Procs :
        /\ Completed(p) /\ Reconciles(p)
        /\ proc[p].found.status = "PENDING" /\ proc[p].found.targetRole = "USER_GOLD"
        /\ proc[p].session.payment_status = "paid"
        /\ proc[p].session.amount_total = STRIPE_PRICE_TO_PLAN("price_gold").amount
        /\ proc[p].userRole = "USER"
        /\ proc[p].didMarkPaid /\ proc[p].didUpgrade
        /\ purchases[proc[p].found.id].status = "PAID"
        /\ role[proc[p].found.userId] = "USER_GOLD"

\* The rank table is the strict order of the six roles.
RankOrder ==
    /\ ROLE_RANK("USER") < ROLE_RANK("USER_BRONZE")
    /\ ROLE_RANK("USER_BRONZE") < ROLE_RANK("USER_GOLD")
    /\ ROLE_RANK("USER_GOLD") < ROLE_RANK("USER_PLATINUM")
    /\ ROLE_RANK("USER_PLATINUM") < ROLE_RANK("TRAINER")
    /\ ROLE_RANK("TRAINER") < ROLE_RANK("ADMIN")

\* Every role of the plan registry ranks below TRAINER and ADMIN.
PlansBelowStaff ==
    \A k \in PriceIds :
        /\ STRIPE_PRICE_TO_PLAN(k).role \in Roles
        /\ ROLE_RANK(STRIPE_PRICE_TO_PLAN(k).role) < ROLE_RANK("TRAINER")
        /\ ROLE_RANK(STRIPE_PRICE_TO_PLAN(k).role) < ROLE_RANK("ADMIN")

\* For a user read as TRAINER or ADMIN the checkout guard rejects every plan
\* and neither settlement-time comparison upgrades to a plan's role.
StaffKeepRole ==
    \A k \in PriceIds, staff \in {"TRAINER", "ADMIN"} :
        /\ CheckoutRejects(STRIPE_PRICE_TO_PLAN(k).role, staff)
        /\ ~WebhookShouldUpgrade(STRIPE_PRICE_TO_PLAN(k).role, staff)
        /\ ~VerifyShouldUpgrade(STRIPE_PRICE_TO_PLAN(k).role, staff)

\* C20: purchasable range.  The rank table orders the six roles strictly,
\* every plan's role ranks below TRAINER and ADMIN, and no step of a checkout,
\* a webhook delivery or a verify call sets a user's role to TRAINER or ADMIN,
\* or changes the role of a user who is TRAINER or ADMIN (a user read as one
\* is neither admitted at checkout nor upgraded at settlement).
C20_PurchasableRange ==
    [][/\ RankOrder /\ PlansBelowStaff /\ StaffKeepRole
       /\ \A u \in Users :
              role'[u] # role[u] =>
                  /\ role'[u] \notin {"TRAINER", "ADMIN"}
                  /\ role[u] \notin {"TRAINER", "ADMIN"}]_vars

\* C20 witness: an ADMIN's checkout of the highest plan was answered 409,
\* after another user had been upgraded to USER_PLATINUM.
C20_Witness ==
    /\ role[1] = "ADMIN" /\ role[2] = "USER_PLATINUM"
    /\ Done(1) /\ proc[1].kind = "checkout" /\ proc[1].http = 409
    /\ proc[1].userRole = "ADMIN" /\ proc[1].priceId = "price_platinum"

\* The step in which request p makes its settlement write.
SettlesNow(p) == ~proc[p].didMarkPaid /\ proc'[p].didMarkPaid

\* C22: role read after settlement.  In every webhook delivery and verify call
\* the role that decides the upgrade is read after the call's settlement
\* write: when the call settles it has not read the role yet, or the role it
\* holds is the one the store holds at that moment, so a role another
\* invocation committed before the settlement is the one compared.
C22_RoleReadAfterSettlement ==
    [][\A p \in Procs :
          SettlesNow(p) =>
              \/ proc'[p].userRole = ""
              \/ proc'[p].userRole = role[proc'[p].found.userId]]_vars

\* C23: already-PAID frame.  A webhook delivery or verify call that read its
\* resolved purchase with status PAID writes nothing to a purchase: none of
\* its steps changes or rewrites the ledger, and it never marks the purchase
\* paid.
C23_AlreadyPaidFrame ==
    /\ [](\A p \in Procs :
            (Reconciles(p) /\ proc[p].found.status = "PAID") => ~proc[p].didMarkPaid)
    /\ [][\A p \in Procs :
            (Reconciles(p) /\ proc[p].found.status = "PAID" /\ proc'[p] # proc[p]) =>
                UNCHANGED <<purchases, settleWrites>>]_vars

\* C23 witness: of two deliveries of one event the first settled the purchase
\* and the second, reading it PAID, has replied; the purchase was written once.
C23_Witness ==
    \E p, q \in Procs :
        /\ Done(p) /\ proc[p].kind = "webhook" /\ proc[p].found.status = "PAID"
        /\ Done(q) /\ proc[q].kind = "webhook" /\ proc[q].didMarkPaid
        /\ proc[q].found.id = proc[p].found.id
        /\ settleWrites[proc[p].found.id] = 1
        /\ purchases[proc[p].found.id] = proc[p].found

\* C24: settlement without upgrade.  A webhook delivery or verify call that
\* resolves a PENDING purchase for a paid session while the user already ranks
\* at or above the target role marks the purchase PAID, leaves the user's
\* role as it is, and replies 200 without an upgrade.
C24_SettledNotUpgraded ==
    \A p \in Procs :
        (/\ Completed(p) /\ Observed(p) /\ IsPaid(proc[p].session)
         /\ proc[p].found.status = "PENDING"
         /\ ROLE_RANK(proc[p].userRole) >= ROLE_RANK(proc[p].found.targetRole)) =>
            /\ proc[p].didMarkPaid
            /\ purchases[proc[p].found.id].status = "PAID"
            /\ ~proc[p].didUpgrade
            /\ role[proc[p].found.userId] = proc[p].userRole
            /\ roleWrites[proc[p].found.id] = 0
            /\ proc[p].http = 200

\* C24 witness: a user checked out USER_BRONZE and then USER_GOLD before either
\* was paid; the USER_GOLD purchase was settled first, and the call settling
\* the USER_BRONZE purchase has replied, the user staying USER_GOLD.
C24_Witness ==
    \E p \in Procs :
        /\ Completed(p) /\ Reconciles(p) /\ proc[p].didMarkPaid
        /\ proc[p].found.status = "PENDING" /\ proc[p].found.targetRole = "USER_BRONZE"
        /\ proc[p].userRole = "USER_GOLD" /\ ~proc[p].didUpgrade
        /\ role[proc[p].found.userId] = "USER_GOLD"
        /\ \A i \in PurchaseIds : purchases[i].status = "PAID"

\* The step in which an awaited call of request p rejects.
FailsNow(p) == ~proc[p].fault /\ proc'[p].fault

\* C25: settle before upgrade.  A user's role has been written on behalf of a
\* purchase only if the purchase is PAID, in every state, those after a failed
\* call included; the role is written only in a step that finds the purchase
\* PAID, and a step in which a call fails changes no purchase and no role.
C25_SettleBeforeUpgrade ==
    /\ [](\A i \in PurchaseIds : roleWrites[i] > 0 => purchases[i].status = "PAID")
    /\ [][/\ \A i \in PurchaseIds :
                 roleWrites'[i] # roleWrites[i] => purchases[i].status = "PAID"
          /\ role' # role => roleWrites' # roleWrites
          /\ \A p \in Procs : FailsNow(p) => UNCHANGED <<purchases, role>>]_vars

\* C25 witness: the settlement write of a call failed and left the purchase
\* PENDING and the user as before, while another purchase was settled and its
\* user upgraded.
C25_Witness ==
    \E i, j \in PurchaseIds :
        /\ roleWrites[i] = 1 /\ purchases[i].status = "PAID"
        /\ purchases[j].status = "PENDING" /\ roleWrites[j] = 0
        /\ Done(1) /\ proc[1].fault /\ Reconciles(1)
        /\ proc[1].found.id = j /\ ~proc[1].didMarkPaid
        /\ role[purchases[j].userId] = "USER"

\* C26: immutable purchase fields.  No step changes the id, the userId or the
\* targetRole of a purchase of the ledger, and no step removes a purchase.
C26_ImmutableFields ==
    [][/\ Len(purchases') >= Len(purchases)
       /\ \A i \in PurchaseIds :
              /\ purchases'[i].id = purchases[i].id /\ purchases[i].id = i
              /\ purchases'[i].userId = purchases[i].userId
              /\ purchases'[i].targetRole = purchases[i].targetRole]_vars

\* C26 witness: a purchase went through all three writes: it was linked by
\* its checkout and settled by a verify call after its session had lost its
\* metadata, and it still names its user and its plan's role.
C26_Witness ==
    \E i \in PurchaseIds :
        /\ purchases[i].status = "PAID" /\ settleWrites[i] = 1
        /\ sessions[purchases[i].externalId].metadata = NoMeta
        /\ purchases[i].userId = 2 /\ purchases[i].targetRole = "USER_GOLD"

\* No request is in flight and no reply is waiting to be sent.
Quiescent == \A p \in Procs : proc[p] = Idle

\* C27: paid implies entitled.  In every quiescent state reached without a
\* failing call, the user of every PAID purchase ranks at least at the
\* purchase's target role.
C27_PaidImpliesEntitled ==
    Quiescent =>
        \A i \in PurchaseIds :
            purchases[i].status = "PAID" =>
                ROLE_RANK(role[purchases[i].userId]) >= ROLE_RANK(purchases[i].targetRole)

\* C28: upgrades are backed by a purchase.  Every step that writes a user's
\* role writes it on behalf of a purchase that is PAID at that moment, writes
\* that purchase's target role, and writes it to that purchase's user; no
\* other user's role changes.
C28_UpgradeBackedByPurchase ==
    [][/\ role' # role => roleWrites' # roleWrites
       /\ \A i \in PurchaseIds :
              roleWrites'[i] # roleWrites[i] =>
                  /\ purchases[i].status = "PAID"
                  /\ role'[purchases[i].userId] = purchases[i].targetRole
                  /\ \A u \in Users : u # purchases[i].userId => role'[u] = role[u]]_vars

\* C28 witness: the second user, who bought USER_PLATINUM, was upgraded by a
\* webhook delivery from the role named in the event's metadata; the first
\* user's role is as it was.
C28_Witness ==
    /\ Done(1) /\ proc[1].kind = "webhook" /\ proc[1].didUpgrade
    /\ proc[1].found.userId = 2 /\ proc[1].session.metadata.targetRole = "USER_PLATINUM"
    /\ role[2] = "USER_PLATINUM" /\ role[1] = "USER_BRONZE"
    /\ purchases[proc[1].found.id].status = "PAID"

\* ------------------------------------------------- webhook redelivery (C21)
\* The number of awaited calls that may reject in a run where failures are
\* finite.
MaxFailures == 1

\* As Fail, counted: the awaited ledger call rejects and the catch block of the
\* handler answers 500 (lines 229-232, 300-303), which for the webhook is the
\* signal to the gateway to deliver the event again.
FailCounted(p) ==
    /\ failures < MaxFailures
    /\ proc[p].pc \notin {"idle", "done"}
    /\ Respond(p, [proc[p] EXCEPT !.fault = TRUE], 500)
    /\ failures' = failures + 1
    /\ UNCHANGED <<role, purchases, sessions, settleWrites, roleWrites, anomalies, verified,
                   otherVars>>

\* The gateway delivers checkout.session.completed of session s.
Redeliver(s) == WhReceive(1) /\ proc'[1].session.id = s

\* The segments of a handler that has been entered.
CheckoutRuns == CkReadUser(1) \/ CkCreate(1) \/ CkSession(1, FALSE) \/ CkLink(1)

WebhookRuns == WhFind(1) \/ WhSettle(1) \/ WhReadUser(1) \/ WhUpgrade(1)

\* One request at a time, one user, sessions paid as the plan says, finitely
\* many failing calls, and no verify call at all.
NextLive ==
    \/ Checkout(1, FALSE) \/ Webhook(1) \/ FailCounted(1) \/ Return(1)
    \/ \E s \in SessionIds : GatewayPay(s)

\* A handler that was entered runs to its reply, the reply is sent, and the
\* gateway keeps delivering the event of every completed session.
LiveSpec ==
    /\ Init
    /\ [][NextLive]_vars
    /\ WF_vars(CheckoutRuns)
    /\ WF_vars(WebhookRuns)
    /\ WF_vars(Return(1))
    /\ \A s \in 1 .. MaxPurchases : SF_vars(Redeliver(s))

PaidSessionOf(i) ==
    \E s \in SessionIds :
        sessions[s].metadata.purchaseId = i /\ sessions[s].payment_status = "paid"

Entitled(i) ==
    /\ i \in PurchaseIds
    /\ purchases[i].status = "PAID"
    /\ ROLE_RANK(role[purchases[i].userId]) >= ROLE_RANK(purchases[i].targetRole)

\* C21: with the paid session's event delivered again and again and finitely
\* many failing calls, every purchase whose session was paid is eventually PAID
\* with its user's rank at least the rank of its target role, without a verify
\* call.
C21_LivenessByRedelivery ==
    \A i \in 1 .. MaxPurchases : (i \in PurchaseIds /\ PaidSessionOf(i)) ~> Entitled(i)

\* ------------------------------------------------------ class enrolment (C29)
\* The users who may ask to enrol, and the largest capacity of the class.
MaxMembers == 3

MaxCapacity == 2

Members == 1 .. MaxMembers

\* The id of the class, and an id that is no row of Class.
TheClass == 1

ClassIdInputs == {NULL, TheClass, TheClass + 1}

\* authUser.id of a request: none, a member, a user deleted since the login.
AuthUserInputs == {NULL} \cup Members \cup {MaxMembers + 1}

USER_MEMBERSHIP_ROLES == {"USER", "USER_BRONZE", "USER_GOLD", "USER_PLATINUM"}

isUserMembershipRole(r) == r \in USER_MEMBERSHIP_ROLES

\* One class that has not started, with or without a capacity and a required
\* role, no enrolment; the members are a gold member, a trainer, and members
\* holding any of the three roles.
InitClass ==
    /\ role \in {f \in [Members -> {"USER", "USER_GOLD", "TRAINER"}] :
                    f[MaxMembers - 1] = "USER_GOLD" /\ f[MaxMembers] = "TRAINER"}
    /\ Empty
    /\ NoAccount
    /\ clazz \in [capacity : {NULL} \cup (1 .. MaxCapacity),
                  requiredRole : {"", "USER_GOLD"}, started : {FALSE}]
    /\ enrollments = {}
    /\ enroll = [p \in Procs |-> EnrollIdle]

EnrollRespond(p, rec, code) ==
    enroll' = [enroll EXCEPT ![p] = [rec EXCEPT !.pc = "done", !.http = code]]

EnrollGoto(p, rec, label) == enroll' = [enroll EXCEPT ![p] = [rec EXCEPT !.pc = label]]

\* lines 194-206: the parameters of the request
EnBegin(p) ==
    /\ enroll[p].pc = "idle"
    /\ \E classId \in ClassIdInputs, userId \in AuthUserInputs :
         LET rec == [EnrollIdle EXCEPT !.classId = classId, !.userId = userId]
         IN  IF classId = NULL THEN EnrollRespond(p, rec, 400)
             ELSE IF userId = NULL THEN EnrollRespond(p, rec, 401)
             ELSE EnrollGoto(p, rec, "en_class")
    /\ UNCHANGED <<role, purchases, sessions, proc, settleWrites, roleWrites, anomalies,
                   verified, failures, clazz, enrollments, authVars>>

\* lines 226-230: the capacity test, on the count read with the class
ClassIsFull(capacity, count) == capacity # NULL /\ count >= capacity

\* lines 209-232: the class and its enrolment count are read; not found,
\* started, full
EnReadClass(p) ==
    /\ enroll[p].pc = "en_class"
    /\ LET rec == [enroll[p] EXCEPT !.count = Cardinality(enrollments)]
       IN  IF enroll[p].classId # TheClass THEN EnrollRespond(p, rec, 404)
           ELSE IF clazz.started THEN EnrollRespond(p, rec, 400)
           ELSE IF ClassIsFull(clazz.capacity, rec.count) THEN EnrollRespond(p, rec, 400)
           ELSE EnrollGoto(p, rec, "en_user")
    /\ UNCHANGED <<role, purchases, sessions, proc, settleWrites, roleWrites, anomalies,
                   verified, failures, clazz, enrollments, authVars>>

\* lines 240-260: the two role restrictions of a class with a requiredRole
RoleRefused(requiredRole, userRole) ==
    \/ /\ requiredRole # ""
       /\ ~isUserMembershipRole(userRole)
       /\ userRole # "ADMIN"
       /\ userRole # "TRAINER"
    \/ /\ requiredRole # ""
       /\ isUserMembershipRole(userRole)
       /\ userRole # requiredRole

\* lines 234-260: the user is read; not found, role refused
EnReadUser(p) ==
    /\ enroll[p].pc = "en_user"
    /\ IF enroll[p].userId \notin DOMAIN role THEN EnrollRespond(p, enroll[p], 404)
       ELSE IF RoleRefused(clazz.requiredRole, role[enroll[p].userId])
            THEN EnrollRespond(p, enroll[p], 403)
       ELSE EnrollGoto(p, enroll[p], "en_create")
    /\ UNCHANGED <<role, purchases, sessions, proc, settleWrites, roleWrites, anomalies,
                   verified, failures, clazz, enrollments, authVars>>

\* lines 262-277: the enrolment row is created; a second row of the same user
\* and class is refused by the store (P2002) and answered 409
EnCreate(p) ==
    /\ enroll[p].pc = "en_create"
    /\ IF enroll[p].userId \in enrollments
       THEN EnrollRespond(p, enroll[p], 409) /\ UNCHANGED enrollments
       ELSE /\ enrollments' = enrollments \cup {enroll[p].userId}
            /\ EnrollRespond(p, enroll[p], 201)
    /\ UNCHANGED <<role, purchases, sessions, proc, settleWrites, roleWrites, anomalies,
                   verified, failures, clazz, authVars>>

\* lines 278-281: an awaited call rejects, the catch block answers 500
EnFail(p) ==
    /\ enroll[p].pc \notin {"idle", "done"}
    /\ EnrollRespond(p, [enroll[p] EXCEPT !.fault = TRUE], 500)
    /\ UNCHANGED <<role, purchases, sessions, proc, settleWrites, roleWrites, anomalies,
                   verified, failures, clazz, enrollments, authVars>>

EnReturn(p) ==
    /\ enroll[p].pc = "done"
    /\ enroll' = [enroll EXCEPT ![p] = EnrollIdle]
    /\ UNCHANGED <<role, purchases, sessions, proc, settleWrites, roleWrites, anomalies,
                   verified, failures, clazz, enrollments, authVars>>

\* Time passes clazz.startTime (line 220).
ClassStarts ==
    /\ ~clazz.started
    /\ clazz' = [clazz EXCEPT !.started = TRUE]
    /\ UNCHANGED <<role, purchases, sessions, proc, settleWrites, roleWrites, anomalies,
                   verified, failures, enrollments, enroll, authVars>>

enrollInClass(p) == EnBegin(p) \/ EnReadClass(p) \/ EnReadUser(p) \/ EnCreate(p)

\* Concurrent enrolment requests: every interleaving of the handler's segments.
NextClass ==
    \/ \E p \in Procs : enrollInClass(p) \/ EnFail(p) \/ EnReturn(p)
    \/ ClassStarts

ClassSpec == InitClass /\ [][NextClass]_vars

\* The class has a capacity and no more enrolments than it.
WithinCapacity == clazz.capacity # NULL => Cardinality(enrollments) <= clazz.capacity

\* The request in slot p reads the class and finds it full.
FindsFull(p) ==
    /\ enroll[p].pc = "en_class"
    /\ enroll[p].classId = TheClass
    /\ clazz.capacity # NULL
    /\ Cardinality(enrollments) >= clazz.capacity

\* C29: a class with a capacity never has more enrolments than its capacity,
\* whatever the interleaving of the enrolment requests; a request that finds the
\* class full is rejected and creates no enrolment.
C29_ClassCapacity ==
    /\ []WithinCapacity
    /\ [][\A p \in Procs :
            (FindsFull(p) /\ enroll'[p] # enroll[p] /\ ~enroll'[p].fault)
                => /\ enroll'[p].pc = "done"
                   /\ enroll'[p].http = 400
                   /\ UNCHANGED enrollments]_vars

\* --------------------------------------------------- password reset (C30)
\* The reset tokens one run may generate.
MaxTokens == 2

\* What the password-reset handlers never touch.
paymentVars ==
    <<role, purchases, sessions, proc, settleWrites, roleWrites, anomalies, verified, failures>>

\* The email of the account, and an email of no account.
AccountEmail == "member@fitmat"

EmailInputs == {"", AccountEmail, "nobody@fitmat"}

\* A token that was never generated.
UnknownToken == MaxTokens + 1

\* The tokens a request may carry: none, one that was never generated, one
\* that a mail delivered, one whose request ended with the mail refused.
\* crypto.randomBytes (line 120) is taken to return a fresh value each time.
TokenInputs == {NULL, UnknownToken} \cup mailbox \cup undelivered

PasswordInputs == {"", "pw1"}

\* bcrypt.hash (line 297), as far as the model tells hashes apart.
BcryptHash(password) == <<"bcrypt", password>>

\* One account, no reset token, no request.
InitAuth ==
    /\ role \in [{1} -> {"USER"}]
    /\ Empty
    /\ NoClass
    /\ NoAccount

AuthRespond(p, rec, code) ==
    authProc' = [authProc EXCEPT ![p] = [rec EXCEPT !.pc = "done", !.http = code]]

AuthGoto(p, rec, label) == authProc' = [authProc EXCEPT ![p] = [rec EXCEPT !.pc = label]]

\* The requests that will generate a token.
RequestsBeforeToken == Cardinality({q \in Procs : authProc[q].pc = "rq_find"})

\* lines 101-111: the email of the request, the mailer of the deployment
RqBegin(p) ==
    /\ authProc[p].pc = "idle"
    /\ issued + RequestsBeforeToken < MaxTokens
    /\ \E email \in EmailInputs, mailer \in BOOLEAN :
         LET rec == [AuthIdle EXCEPT !.kind = "request", !.email = email]
         IN  IF email = "" THEN AuthRespond(p, rec, 400)
             ELSE IF ~mailer THEN AuthRespond(p, rec, 500)
             ELSE AuthGoto(p, rec, "rq_find")
    /\ UNCHANGED <<paymentVars, classVars, account, issued, mailbox, undelivered, resets,
                   superseded>>

\* lines 114-125: the user is read by email; a token is generated
RqFind(p) ==
    /\ authProc[p].pc = "rq_find"
    /\ IF authProc[p].email # AccountEmail
       THEN AuthRespond(p, authProc[p], 404) /\ UNCHANGED <<issued, resets>>
       ELSE /\ issued' = issued + 1
            /\ resets' = Append(resets, 0)
            /\ AuthGoto(p, [authProc[p] EXCEPT !.token = issued + 1], "rq_save")
    /\ UNCHANGED <<paymentVars, classVars, account, mailbox, undelivered, superseded>>

\* lines 127-133: the token and its expiry are saved
RqSave(p) ==
    /\ authProc[p].pc = "rq_save"
    /\ account' = [account EXCEPT !.resetToken = authProc[p].token, !.expired = FALSE]
    /\ superseded' = superseded \cup ({account.resetToken} \ {NULL})
    /\ AuthGoto(p, authProc[p], "rq_readback")
    /\ UNCHANGED <<paymentVars, classVars, issued, mailbox, undelivered, resets>>

\* lines 136-140: the saved token is read back and logged
RqReadBack(p) ==
    /\ authProc[p].pc = "rq_readback"
    /\ AuthGoto(p, authProc[p], "rq_mail")
    /\ UNCHANGED <<paymentVars, classVars, account, issued, mailbox, undelivered, resets,
                   superseded>>

\* lines 142-165, 177: the mail with the token is sent, or the mailer refuses
RqMail(p) ==
    /\ authProc[p].pc = "rq_mail"
    /\ \/ /\ mailbox' = mailbox \cup {authProc[p].token}
          /\ AuthRespond(p, authProc[p], 200)
       \/ /\ UNCHANGED mailbox
          /\ AuthGoto(p, authProc[p], "rq_clear")
    /\ UNCHANGED <<paymentVars, classVars, account, issued, undelivered, resets, superseded>>

\* lines 166-175: after the refused mail the token and its expiry are cleared
RqClear(p) ==
    /\ authProc[p].pc = "rq_clear"
    /\ account' = [account EXCEPT !.resetToken = NULL, !.expired = FALSE]
    /\ undelivered' = undelivered \cup {authProc[p].token}
    /\ AuthRespond(p, authProc[p], 500)
    /\ UNCHANGED <<paymentVars, classVars, issued, mailbox, resets, superseded>>

\* Time passes resetTokenExpiry (line 121).
TokenExpires ==
    /\ account.resetToken # NULL
    /\ ~account.expired
    /\ account' = [account EXCEPT !.expired = TRUE]
    /\ UNCHANGED <<paymentVars, classVars, issued, mailbox, undelivered, resets, superseded,
                   authProc>>

\* lines 224-231, 284-291: findFirst by exact token with an expiry not passed
ValidToken(token) == account.resetToken = token /\ ~account.expired

\* lines 187-191: the token of the request
VtBegin(p) ==
    /\ authProc[p].pc = "idle"
    /\ \E token \in TokenInputs :
         LET rec == [AuthIdle EXCEPT !.kind = "verify", !.token = token]
         IN  IF token = NULL THEN AuthRespond(p, rec, 400)
             ELSE AuthGoto(p, rec, "vt_list")
    /\ UNCHANGED <<paymentVars, classVars, account, issued, mailbox, undelivered, resets,
                   superseded>>

\* lines 202-223: the users holding a token are listed and logged
VtList(p) ==
    /\ authProc[p].pc = "vt_list"
    /\ AuthGoto(p, authProc[p], "vt_find")
    /\ UNCHANGED <<paymentVars, classVars, account, issued, mailbox, undelivered, resets,
                   superseded>>

\* lines 224-246: the lookup; a valid token is answered 200
VtFind(p) ==
    /\ authProc[p].pc = "vt_find"
    /\ IF ValidToken(authProc[p].token) THEN AuthRespond(p, authProc[p], 200)
       ELSE AuthGoto(p, authProc[p], "vt_expired")
    /\ UNCHANGED <<paymentVars, classVars, account, issued, mailbox, undelivered, resets,
                   superseded>>

\* lines 250-266: expired or unknown, both answered 400
VtExpired(p) ==
    /\ authProc[p].pc = "vt_expired"
    /\ AuthRespond(p, authProc[p], 400)
    /\ UNCHANGED <<paymentVars, classVars, account, issued, mailbox, undelivered, resets,
                   superseded>>

\* lines 272-280: the token and the new password of the request
RsBegin(p) ==
    /\ authProc[p].pc = "idle"
    /\ \E token \in TokenInputs, newPassword \in PasswordInputs :
         LET rec == [AuthIdle EXCEPT !.kind = "reset", !.token = token,
                                     !.newPassword = newPassword]
         IN  IF token = NULL \/ newPassword = "" THEN AuthRespond(p, rec, 400)
             ELSE AuthGoto(p, rec, "rs_find")
    /\ UNCHANGED <<paymentVars, classVars, account, issued, mailbox, undelivered, resets,
                   superseded>>

\* lines 284-295: the lookup; no user holds the token, 400
RsFind(p) ==
    /\ authProc[p].pc = "rs_find"
    /\ IF ValidToken(authProc[p].token) THEN AuthGoto(p, authProc[p], "rs_hash")
       ELSE AuthRespond(p, authProc[p], 400)
    /\ UNCHANGED <<paymentVars, classVars, account, issued, mailbox, undelivered, resets,
                   superseded>>

\* line 297: the new password is hashed
RsHash(p) ==
    /\ authProc[p].pc = "rs_hash"
    /\ AuthGoto(p, authProc[p], "rs_update")
    /\ UNCHANGED <<paymentVars, classVars, account, issued, mailbox, undelivered, resets,
                   superseded>>

\* lines 299-308: the hash is stored, token and expiry are cleared, 200
RsUpdate(p) ==
    /\ authProc[p].pc = "rs_update"
    /\ account' = [resetToken |-> NULL, expired |-> FALSE,
                   passwordHash |-> BcryptHash(authProc[p].newPassword)]
    /\ resets' = [resets EXCEPT ![authProc[p].token] = @ + 1]
    /\ AuthRespond(p, authProc[p], 200)
    /\ UNCHANGED <<paymentVars, classVars, issued, mailbox, undelivered, superseded>>

\* lines 179-182, 263-266, 309-312: an awaited call rejects, 500
AuFail(p) ==
    /\ authProc[p].pc \notin {"idle", "done"}
    /\ AuthRespond(p, [authProc[p] EXCEPT !.fault = TRUE], 500)
    /\ UNCHANGED <<paymentVars, classVars, account, issued, mailbox, undelivered, resets,
                   superseded>>

AuReturn(p) ==
    /\ authProc[p].pc = "done"
    /\ authProc' = [authProc EXCEPT ![p] = AuthIdle]
    /\ UNCHANGED <<paymentVars, classVars, account, issued, mailbox, undelivered, resets,
                   superseded>>

requestPasswordReset(p) ==
    RqBegin(p) \/ RqFind(p) \/ RqSave(p) \/ RqReadBack(p) \/ RqMail(p) \/ RqClear(p)

verifyResetToken(p) == VtBegin(p) \/ VtList(p) \/ VtFind(p) \/ VtExpired(p)

resetPassword(p) == RsBegin(p) \/ RsFind(p) \/ RsHash(p) \/ RsUpdate(p)

\* Concurrent password-reset requests: every interleaving of the handlers'
\* segments, with calls that may fail and a token that may expire.
NextAuth ==
    \/ \E p \in Procs :
          \/ requestPasswordReset(p) \/ verifyResetToken(p) \/ resetPassword(p)
          \/ AuFail(p) \/ AuReturn(p)
    \/ TokenExpires

AuthSpec == InitAuth /\ [][NextAuth]_vars

\* The request in slot p looks its token up (line 284 or 224).
LooksUp(p) == authProc[p].pc \in {"rs_find", "vt_find"} /\ authProc'[p] # authProc[p]

\* The lookup of the request in slot p finds no user.
TokenRejected(p) ==
    /\ ~authProc'[p].fault
    /\ \/ authProc'[p].pc = "vt_expired"
       \/ authProc'[p].pc = "done" /\ authProc'[p].http = 400

\* A token authorises at most one successful reset.
SingleUse == \A t \in 1 .. Len(resets) : resets[t] <= 1

\* A token whose mail was refused is not the token of the account.
UndeliveredCleared == account.resetToken \notin undelivered

\* A successful reset leaves the account without token and expiry; a lookup of
\* a token that was used, that was not delivered or that a later token
\* replaced finds no user.
SpentRejected ==
    \A p \in Procs :
        /\ (authProc[p].pc = "rs_update" /\ authProc'[p].http = 200)
               => account'.resetToken = NULL /\ ~account'.expired
        /\ (/\ LooksUp(p)
            /\ ~authProc'[p].fault
            /\ \/ authProc[p].token \in undelivered \cup superseded
               \/ authProc[p].token \in 1 .. Len(resets) /\ resets[authProc[p].token] >= 1)
               => TokenRejected(p)

\* C30: a reset token authorises at most one successful resetPassword; a
\* successful reset clears the token and its expiry, so a later resetPassword
\* or verifyResetToken with the same token is rejected; a token whose mail was
\* refused is cleared and never accepted; a newly requested token invalidates
\* the previous one.
C30_SingleUseResetToken ==
    /\ [](SingleUse /\ UndeliveredCleared)
    /\ [][SpentRejected]_vars

====
